---------------------------- MODULE Spec2Model ----------------------------
(***************************************************************************)
(* Model of elephant/phase_analysis.py: spike_triggered_phase (the phase   *)
(* extractor) and pairwise_phase_consistency (the PPC calculator).         *)
(*                                                                         *)
(* Times are integer ticks.  A complex sample is a pair <<re, im>> of      *)
(* integers lying on an axis, so that its modulus and the unit vector of   *)
(* its angle are exact.  An angle in (-pi, pi] is represented by the       *)
(* primitive integer vector pointing in its direction (np.angle is a       *)
(* bijection between directions and that interval); a real number that     *)
(* need not be an integer is a reduced fraction <<num, den>>.  The phases  *)
(* given to pairwise_phase_consistency have cosines and sines that are     *)
(* multiples of 1/5.  Arithmetic is exact: the rounding of float64 and of  *)
(* the float32 products of lines 262-263 is not modelled, so an equality   *)
(* stated here is one of real numbers.  Every call has at least one signal *)
(* and one spike train.                                                    *)
(***************************************************************************)
EXTENDS Integers, Sequences, FiniteSets, TLC

\* ------------------------------------------------------------------ bounds

\* Largest number of analytic signals passed in one call.
MaxSignals == 3

\* Largest number of spike trains passed in one call.
MaxTrains == 3

\* Largest number of entries in the list passed to
\* pairwise_phase_consistency.
MaxArrays == 2

\* Largest length of one phase array.
MaxLen == 2

\* ----------------------------------------------------------- number helpers

AbsInt(n) == IF n < 0 THEN -n ELSE n

RECURSIVE Gcd(_, _)
Gcd(a, b) == IF b = 0 THEN a ELSE Gcd(b, a % b)

\* A fraction n/d, d > 0, in lowest terms.
Rat(n, d) ==
    LET g == Gcd(AbsInt(n), d)
    IN  <<n \div g, d \div g>>

\* astype(int): truncation toward zero of a / b, b > 0.
Trunc(a, b) == IF a >= 0 THEN a \div b ELSE -((-a) \div b)

\* np.abs of a complex sample (exact for a sample on an axis).
ComplexAbs(s) ==
    LET n == s[1] * s[1] + s[2] * s[2]
    IN  CHOOSE r \in 0..n : r * r = n

\* np.angle: the direction of the sample; np.angle(0) is 0, the direction
\* of the positive real axis.
Angle(s) ==
    IF s = <<0, 0>> THEN <<1, 0>>
    ELSE LET g == Gcd(AbsInt(s[1]), AbsInt(s[2]))
         IN  <<s[1] \div g, s[2] \div g>>

\* np.exp(np.complex(0, p)): the unit vector of angle p.  Every angle this
\* is applied to is the angle of a sample on an axis, whose primitive
\* direction vector has length 1.
ExpI(p) == p

\* ------------------------------------------------------------------ inputs

\* An analytic signal (neo.AnalogSignal): start time, sampling period and
\* complex samples.
Sig(t0, period, samples) ==
    [t_start |-> t0, sampling_period |-> period, samples |-> samples]

SignalPool ==
    { Sig(0, 2, << <<2, 0>>, <<0, 1>>, <<-1, 0>> >>),
      Sig(1, 2, << <<0, -2>>, <<1, 0>> >>),
      Sig(0, 4, << <<0, 1>>, <<0, -3>> >>) }

\* Spike trains (neo.SpikeTrain): event times, in the order stored.
TrainPool ==
    { << >>, <<0, 1, 4, 5>>, <<6, 2, 3>>, <<8, 9>> }

\* elem.t_stop of a signal: t_start + number of samples * sampling_period.
SigStop(sig) == sig.t_start + Len(sig.samples) * sig.sampling_period

\* hilbert_transform[phase_i].times[i]
SigTime(sig, i) == sig.t_start + i * sig.sampling_period

\* A call argument: a list of items, or one bare item.
ListArg(items) == [list |-> TRUE, items |-> items]
BareArg(item) == [list |-> FALSE, items |-> <<item>>]

SeqsUpTo(S, n) == UNION { [1..k -> S] : k \in 1..n }

SignalArgs ==
    { ListArg(q) : q \in SeqsUpTo(SignalPool, MaxSignals) }
        \cup { BareArg(s) : s \in SignalPool }

TrainArgs ==
    { ListArg(q) : q \in SeqsUpTo(TrainPool, MaxTrains) }
        \cup { BareArg(s) : s \in TrainPool }

\* ------------------------------------------------------------------- state

VARIABLES
    arg_signals,      \* the hilbert_transform argument as passed
    arg_trains,       \* the spiketrains argument as passed
    interpolate,      \* the interpolate argument
    pc,               \* position in spike_triggered_phase
    exc,              \* the exception raised, "none" if none
    hilbert_transform,\* the argument as a list (after line 100)
    spiketrains,      \* the argument as a list (after line 97)
    spiketrain_i,     \* 0-based index of the outer loop (line 121)
    phase_i,          \* 0-based index of the signal compared against
    sttimeind,        \* 1-based positions of the retained events
    ind_at_spike,     \* sample index of each retained event
    spike_i,          \* 0-based index of the inner loop (line 150)
    result_phases,
    result_amps,
    result_times,
    ret,              \* the returned tuple, NoReturn until the return
    arg_phases,       \* the phases argument of pairwise_phase_consistency
    method,           \* its method argument
    ppc_pc,           \* position in pairwise_phase_consistency
    ppc_exc,          \* the exception it raised, "none" if none
    phases,           \* the argument as a list (after line 235)
    phase_array,      \* the pooled phases (line 250)
    n_trials,         \* their number (line 251)
    dot_prod,         \* the matrix of lines 262-267
    ppc_ret           \* the returned value, NoReturn until the return

stp_vars ==
    <<arg_signals, arg_trains, interpolate, pc, exc, hilbert_transform,
      spiketrains, spiketrain_i, phase_i, sttimeind, ind_at_spike, spike_i,
      result_phases, result_amps, result_times, ret>>

ppc_vars ==
    <<arg_phases, method, ppc_pc, ppc_exc, phases, phase_array, n_trials,
      dot_prod, ppc_ret>>

vars == <<stp_vars, ppc_vars>>

NoReturn == "NoReturn"

\* --------------------------------------------------- spike_triggered_phase

\* Lines 96-100: a bare argument becomes a one-element list.
AsList(arg) == arg.items

\* The cardinality check without its exemption of a single signal or a
\* single spike train.
CardinalityError_NoSingle(num_spiketrains, num_phase) ==
    num_spiketrains # num_phase

\* Lines 106-107: the cardinality check.
CardinalityError(num_spiketrains, num_phase) ==
    /\ num_spiketrains # 1
    /\ num_phase # 1
    /\ num_spiketrains # num_phase

\* Lines 125-128: the signal a spike train is compared against.
PhaseIndex(num_phase, i) == IF num_phase > 1 THEN i ELSE 0

\* The selection with the window open on the left.
RECURSIVE WhereInWindow_OpenLeft(_, _, _, _)
WhereInWindow_OpenLeft(train, start, stop, k) ==
    IF k > Len(train) THEN << >>
    ELSE IF train[k] > start /\ train[k] < stop
         THEN <<k>> \o WhereInWindow_OpenLeft(train, start, stop, k + 1)
         ELSE WhereInWindow_OpenLeft(train, start, stop, k + 1)

\* Lines 132-133: np.where(spiketrain >= start and spiketrain < stop)[0],
\* as the increasing sequence of 1-based positions.
RECURSIVE WhereInWindow(_, _, _, _)
WhereInWindow(train, start, stop, k) ==
    IF k > Len(train) THEN << >>
    ELSE IF train[k] >= start /\ train[k] < stop
         THEN <<k>> \o WhereInWindow(train, start, stop, k + 1)
         ELSE WhereInWindow(train, start, stop, k + 1)

\* Lines 139-142: the truncated sample index of each retained event.
IndAtSpike(train, where, sig) ==
    [j \in 1..Len(where) |->
        Trunc(train[where[j]] - sig.t_start, sig.sampling_period)]

\* The test of the interpolating branch without its check of the range.
Interpolates_NoRangeCheck(interp, i, sig) == interp

\* Line 152: whether the interpolating branch is taken.
Interpolates(interp, i, sig) == interp /\ i + 1 < Len(sig.samples)

\* Lines 161-179: the 0-based sample indices read for an event at sample
\* index i.
SamplesRead(interp, i, sig) ==
    IF Interpolates(interp, i, sig) THEN {i, i + 1} ELSE {i}

\* Lines 161-179: whether hilbert_transform[phase_i][r] is an index Python
\* accepts; any other raises IndexError.
InRange(sig, r) == -Len(sig.samples) <= r /\ r < Len(sig.samples)

\* Lines 161-179: hilbert_transform[phase_i][r] for an accepted index; a
\* negative one counts from the end of the signal.
ReadSample(sig, r) ==
    IF r >= 0 THEN sig.samples[r + 1]
    ELSE sig.samples[Len(sig.samples) + r + 1]

\* Lines 157-158: the numerator of z, whose denominator is the signal's
\* sampling_period.
ZOffset(t, i, sig) == t - SigTime(sig, i)

\* The interpolated phase with the weights of the two samples exchanged.
InterpPhase_Swapped(t, i, sig) ==
    LET z  == ZOffset(t, i, sig)
        P  == sig.sampling_period
        e1 == ExpI(Angle(ReadSample(sig, i)))
        e2 == ExpI(Angle(ReadSample(sig, i + 1)))
    IN  Angle(<<z * e1[1] + (P - z) * e2[1], z * e1[2] + (P - z) * e2[2]>>)

\* Lines 161-166: the interpolated phase.
InterpPhase(t, i, sig) ==
    LET z  == ZOffset(t, i, sig)
        P  == sig.sampling_period
        e1 == ExpI(Angle(ReadSample(sig, i)))
        e2 == ExpI(Angle(ReadSample(sig, i + 1)))
    IN  Angle(<<(P - z) * e1[1] + z * e2[1], (P - z) * e1[2] + z * e2[2]>>)

\* Lines 169-172: the interpolated amplitude.
InterpAmp(t, i, sig) ==
    LET z == ZOffset(t, i, sig)
        P == sig.sampling_period
    IN  Rat((P - z) * ComplexAbs(ReadSample(sig, i))
                + z * ComplexAbs(ReadSample(sig, i + 1)), P)

\* Lines 152-179: the phase recorded for an event at time t, sample index i.
SpikePhase(interp, t, i, sig) ==
    IF Interpolates(interp, i, sig)
    THEN InterpPhase(t, i, sig)
    ELSE Angle(ReadSample(sig, i))

\* Lines 152-179: the amplitude recorded for that event.
SpikeAmp(interp, t, i, sig) ==
    IF Interpolates(interp, i, sig)
    THEN InterpAmp(t, i, sig)
    ELSE Rat(ComplexAbs(ReadSample(sig, i)), 1)

\* No call of pairwise_phase_consistency is in progress.
PpcIdle ==
    /\ arg_phases = ListArg(<< >>)
    /\ method = "ppc0"
    /\ ppc_pc = "idle"
    /\ ppc_exc = "none"
    /\ phases = << >>
    /\ phase_array = << >>
    /\ n_trials = 0
    /\ dot_prod = << >>
    /\ ppc_ret = NoReturn

\* The result list with the value put in front of entry k.
AppendTo_Front(results, k, v) == [results EXCEPT ![k] = <<v>> \o @]

\* Lines 166, 169, 175, 178, 182: result[spiketrain_i].append(v).
AppendTo(results, k, v) == [results EXCEPT ![k] = Append(@, v)]

Init ==
    /\ PpcIdle
    /\ arg_signals \in SignalArgs
    /\ arg_trains \in TrainArgs
    /\ interpolate \in BOOLEAN
    /\ pc = "start"
    /\ exc = "none"
    /\ hilbert_transform = << >>
    /\ spiketrains = << >>
    /\ spiketrain_i = 0
    /\ phase_i = 0
    /\ sttimeind = << >>
    /\ ind_at_spike = << >>
    /\ spike_i = 0
    /\ result_phases = << >>
    /\ result_amps = << >>
    /\ result_times = << >>
    /\ ret = NoReturn

\* Lines 95-118: normalise the arguments and check the cardinalities.
Validate ==
    /\ pc = "start"
    /\ hilbert_transform' = AsList(arg_signals)
    /\ spiketrains' = AsList(arg_trains)
    /\ IF CardinalityError(Len(AsList(arg_trains)), Len(AsList(arg_signals)))
       THEN /\ pc' = "raised"
            /\ exc' = "ValueError"
       ELSE /\ pc' = "trains"
            /\ exc' = exc
    /\ UNCHANGED ppc_vars
    /\ UNCHANGED <<arg_signals, arg_trains, interpolate, spiketrain_i,
                   phase_i, sttimeind, ind_at_spike, spike_i, result_phases,
                   result_amps, result_times, ret>>

\* Lines 121-147: enter the outer loop body for the next spike train.
SelectSpikes ==
    /\ pc = "trains"
    /\ spiketrain_i < Len(spiketrains)
    /\ LET p     == PhaseIndex(Len(hilbert_transform), spiketrain_i)
           sig   == hilbert_transform[p + 1]
           train == spiketrains[spiketrain_i + 1]
           where == WhereInWindow(train, sig.t_start, SigStop(sig), 1)
       IN  /\ phase_i' = p
           /\ sttimeind' = where
           /\ ind_at_spike' = IndAtSpike(train, where, sig)
    /\ spike_i' = 0
    /\ result_phases' = Append(result_phases, << >>)
    /\ result_amps' = Append(result_amps, << >>)
    /\ result_times' = Append(result_times, << >>)
    /\ pc' = "spikes"
    /\ UNCHANGED ppc_vars
    /\ UNCHANGED <<arg_signals, arg_trains, interpolate, exc,
                   hilbert_transform, spiketrains, spiketrain_i, ret>>

\* Lines 150-182: one iteration of the inner loop; reading a sample at an
\* index Python does not accept raises IndexError.
StepSpike ==
    /\ pc = "spikes"
    /\ spike_i < Len(ind_at_spike)
    /\ LET sig == hilbert_transform[phase_i + 1]
           k   == spiketrain_i + 1
           t   == spiketrains[k][sttimeind[spike_i + 1]]
           i   == ind_at_spike[spike_i + 1]
       IN  IF \A r \in SamplesRead(interpolate, i, sig) : InRange(sig, r)
           THEN /\ result_phases' =
                     AppendTo(result_phases, k,
                              SpikePhase(interpolate, t, i, sig))
                /\ result_amps' =
                     AppendTo(result_amps, k,
                              SpikeAmp(interpolate, t, i, sig))
                /\ result_times' = AppendTo(result_times, k, t)
                /\ spike_i' = spike_i + 1
                /\ UNCHANGED <<pc, exc>>
           ELSE /\ pc' = "raised"
                /\ exc' = "IndexError"
                /\ UNCHANGED <<result_phases, result_amps, result_times,
                               spike_i>>
    /\ UNCHANGED ppc_vars
    /\ UNCHANGED <<arg_signals, arg_trains, interpolate, hilbert_transform,
                   spiketrains, spiketrain_i, phase_i, sttimeind,
                   ind_at_spike, ret>>

\* Line 150 exhausted: back to line 121 for the next spike train.
NextTrain ==
    /\ pc = "spikes"
    /\ spike_i = Len(ind_at_spike)
    /\ spiketrain_i' = spiketrain_i + 1
    /\ pc' = "trains"
    /\ UNCHANGED ppc_vars
    /\ UNCHANGED <<arg_signals, arg_trains, interpolate, exc,
                   hilbert_transform, spiketrains, phase_i, sttimeind,
                   ind_at_spike, spike_i, result_phases, result_amps,
                   result_times, ret>>

\* Lines 187-190: entry[0].units raises IndexError on an empty entry.
ConvertFails(entries) == \E k \in 1..Len(entries) : entries[k] = << >>

\* Lines 184-191: convert the outputs to arrays and return them.
Convert ==
    /\ pc = "trains"
    /\ spiketrain_i = Len(spiketrains)
    /\ IF ConvertFails(result_amps) \/ ConvertFails(result_times)
       THEN /\ pc' = "raised"
            /\ exc' = "IndexError"
            /\ ret' = ret
       ELSE /\ pc' = "done"
            /\ exc' = exc
            /\ ret' = <<result_phases, result_amps, result_times>>
    /\ UNCHANGED ppc_vars
    /\ UNCHANGED <<arg_signals, arg_trains, interpolate, hilbert_transform,
                   spiketrains, spiketrain_i, phase_i, sttimeind,
                   ind_at_spike, spike_i, result_phases, result_amps,
                   result_times>>

Next ==
    \/ Validate
    \/ SelectSpikes
    \/ StepSpike
    \/ NextTrain
    \/ Convert

Spec == Init /\ [][Next]_vars

\* ------------------------------------------- claims: spike_triggered_phase

\* The number of signals and of spike trains of the call.
NumSignals == Len(arg_signals.items)

NumTrains == Len(arg_trains.items)

\* Whether time t lies in the window [t_start, t_stop) of a signal.
InWindowOf(sig, t) == sig.t_start <= t /\ t < SigStop(sig)

\* The events of a train inside the window of a signal, in input order.
Retained(train, sig) ==
    LET Test(t) == InWindowOf(sig, t)
    IN  SelectSeq(train, Test)

\* The signal train k is compared against: the single signal, or signal k.
ComparedSignal(k) ==
    IF Len(hilbert_transform) = 1
    THEN hilbert_transform[1]
    ELSE hilbert_transform[k]

\* The sample index of an event at time t of a signal.
SampleIndex(sig, t) == Trunc(t - sig.t_start, sig.sampling_period)

\* C1: the call raises ValueError exactly when neither count is 1 and the
\* counts differ; it does so before any spike train is looked at, and
\* returns nothing.
C1_CardinalityRejection ==
    /\ pc # "start" =>
        (exc = "ValueError"
            <=> (NumSignals # 1 /\ NumTrains # 1 /\ NumSignals # NumTrains))
    /\ exc = "ValueError" =>
        /\ pc = "raised"
        /\ ret = NoReturn
        /\ spiketrain_i = 0
        /\ sttimeind = << >>
        /\ result_phases = << >>
        /\ result_amps = << >>
        /\ result_times = << >>

\* A call with two signals and three spike trains, rejected.
C1_Witness ==
    /\ pc = "raised"
    /\ exc = "ValueError"
    /\ NumSignals = 2
    /\ NumTrains = 3

\* C2: with one spike train and S > 1 signals, each of the three returned
\* lists has one entry per signal.
C2_OneResultPerSignal ==
    (pc = "done" /\ NumTrains = 1 /\ NumSignals > 1) =>
        /\ Len(ret[1]) = NumSignals
        /\ Len(ret[2]) = NumSignals
        /\ Len(ret[3]) = NumSignals

\* C3: the retained events of train k are exactly its events t with
\* t_start <= t < t_stop of the signal it is compared against (the single
\* signal, or signal k when the counts are equal), both when they are
\* selected and in the returned times.
C3_RetainedWithinWindow ==
    (NumSignals = 1 \/ NumSignals = NumTrains) =>
        /\ pc = "spikes" =>
            LET train == spiketrains[spiketrain_i + 1]
            IN  [j \in 1..Len(sttimeind) |-> train[sttimeind[j]]]
                    = Retained(train, ComparedSignal(spiketrain_i + 1))
        /\ pc = "done" =>
            \A k \in 1..NumTrains :
                ret[3][k] = Retained(spiketrains[k], ComparedSignal(k))

\* A returned call with matched signals and trains, a train of which has an
\* event at its signal's t_start, kept, and one at its t_stop, dropped.
C3_Witness ==
    /\ pc = "done"
    /\ NumSignals = NumTrains
    /\ NumTrains > 1
    /\ \E k \in 1..NumTrains :
        LET sig    == ComparedSignal(k)
            events == {spiketrains[k][j] : j \in 1..Len(spiketrains[k])}
            kept   == {ret[3][k][j] : j \in 1..Len(ret[3][k])}
        IN  /\ sig.t_start \in events
            /\ SigStop(sig) \in events
            /\ sig.t_start \in kept
            /\ SigStop(sig) \notin kept

\* C4: the three lists of a train grow together, and in the result they
\* have the length of the number of retained events, times[j] is the j-th
\* retained event in input order, and phases[j] and amplitudes[j] are the
\* values computed for that event.
C4_ParallelOutputs ==
    /\ \A k \in 1..Len(result_times) :
        /\ Len(result_phases[k]) = Len(result_times[k])
        /\ Len(result_amps[k]) = Len(result_times[k])
    /\ pc = "done" =>
        \A k \in 1..NumTrains :
            LET sig   == ComparedSignal(k)
                train == spiketrains[k]
                n     == Cardinality({j \in 1..Len(train) :
                                        InWindowOf(sig, train[j])})
            IN  /\ Len(ret[1][k]) = n
                /\ Len(ret[2][k]) = n
                /\ Len(ret[3][k]) = n
                /\ ret[3][k] = Retained(train, sig)
                /\ \A j \in 1..n :
                    LET t == ret[3][k][j]
                        i == SampleIndex(sig, t)
                    IN  /\ ret[1][k][j] = SpikePhase(interpolate, t, i, sig)
                        /\ ret[2][k][j] = SpikeAmp(interpolate, t, i, sig)

\* A returned call with a train whose retained events are not in time
\* order and get different phases.
C4_Witness ==
    /\ pc = "done"
    /\ \E k \in 1..NumTrains :
        /\ Len(ret[3][k]) >= 2
        /\ ret[3][k][1] > ret[3][k][2]
        /\ ret[1][k][1] # ret[1][k][2]

\* Whether train k has no event in the window of its signal.
ZeroRetained(k) == Retained(spiketrains[k], ComparedSignal(k)) = << >>

\* C5: a call that passes the cardinality check and has a train with zero
\* retained events does not raise, and returns empty phases, amplitudes and
\* times for that train.
C5_EmptyTrainReturnsEmpty ==
    (pc \in {"done", "raised"} /\ exc # "ValueError") =>
        \A k \in 1..NumTrains :
            ZeroRetained(k) =>
                /\ pc = "done"
                /\ ret[1][k] = << >>
                /\ ret[2][k] = << >>
                /\ ret[3][k] = << >>

PhasePool == 1..3

\* np.cos of a phase, in fifths.
Cos(p) == CASE p = 1 -> 5 [] p = 2 -> 3 [] p = 3 -> -4

\* np.sin of a phase, in fifths.
Sin(p) == CASE p = 1 -> 0 [] p = 2 -> 4 [] p = 3 -> 3

\* An entry of the phases argument: a numpy array of floats with its number
\* of dimensions and its values in storage order, or something else.
NdArray(ndim, data) == [ndarray |-> TRUE, ndim |-> ndim, data |-> data]

NotAnArray == [ndarray |-> FALSE, ndim |-> 0, data |-> << >>]

PhaseArrays ==
    { NdArray(1, d) : d \in UNION { [1..k -> PhasePool] : k \in 0..MaxLen } }

EntryPool ==
    PhaseArrays
        \cup { NdArray(0, <<2>>), NdArray(2, <<1, 2>>), NotAnArray }

PhaseArgs ==
    { ListArg(q) : q \in UNION { [1..k -> EntryPool] : k \in 0..MaxArrays } }
        \cup { BareArg(e) : e \in EntryPool }

Methods == {"ppc0", "ppc1", "ppc2"}

\* The loop over the entries without its check of the dimensions.
RECURSIVE CheckEntries_NoNdim(_, _)
CheckEntries_NoNdim(entries, k) ==
    IF k > Len(entries) THEN "none"
    ELSE IF ~entries[k].ndarray THEN "TypeError"
    ELSE CheckEntries_NoNdim(entries, k + 1)

\* Lines 240-245: the exception the loop over the entries raises, "none" if
\* it ends.
RECURSIVE CheckEntries(_, _)
CheckEntries(entries, k) ==
    IF k > Len(entries) THEN "none"
    ELSE IF ~entries[k].ndarray THEN "TypeError"
    ELSE IF entries[k].ndim # 1 THEN "ValueError"
    ELSE CheckEntries(entries, k + 1)

\* The method check letting the declared ppc1 through.
MethodAccepted_WithPpc1(m) == m \in {"ppc0", "ppc1"}

\* Line 247: the methods accepted.
MethodAccepted(m) == m \in {"ppc0"}

\* Pooling that keeps the first array only.
Hstack_FirstOnly(entries) ==
    IF entries = << >> THEN << >> ELSE Head(entries).data

\* Line 250: np.hstack of one-dimensional arrays.
RECURSIVE Hstack(_)
Hstack(entries) ==
    IF entries = << >> THEN << >>
    ELSE Head(entries).data \o Hstack(Tail(entries))

\* Lines 256-263: the entry of the dot product matrix at row j, column k,
\* in twenty-fifths (a product of fifths).
DotProdEntry(pa, j, k) == Cos(pa[k]) * Cos(pa[j]) + Sin(pa[k]) * Sin(pa[j])

\* The matrix with its diagonal left as computed.
FillDiagonal_Skipped(m, n) == m

\* Line 267: np.fill_diagonal(dot_prod, 0).
FillDiagonal(m, n) ==
    [j \in 1..n |-> [k \in 1..n |-> IF j = k THEN 0 ELSE m[j][k]]]

\* Lines 256-267: the matrix the statistic is summed from.
DotProd(pa, n) ==
    FillDiagonal([j \in 1..n |-> [k \in 1..n |-> DotProdEntry(pa, j, k)]], n)

RECURSIVE SumRow(_, _)
SumRow(row, k) == IF k = 0 THEN 0 ELSE SumRow(row, k - 1) + row[k]

\* Line 273: np.sum over the whole matrix, in twenty-fifths.
RECURSIVE SumMatrix(_, _, _)
SumMatrix(m, n, j) ==
    IF j = 0 THEN 0 ELSE SumMatrix(m, n, j - 1) + SumRow(m[j], n)

\* The float NaN, written as the fraction 0/0.
NaN == <<0, 0>>

\* Line 273: a float divided by zero, which numpy does not raise on: NaN
\* for a zero numerator, else the infinity of its sign, written 1/0, -1/0.
DivByZero(s) ==
    IF s = 0 THEN NaN ELSE IF s > 0 THEN <<1, 0>> ELSE <<-1, 0>>

\* The statistic with the sum over both triangles multiplied by 2.
Ppc0_Doubled(m, n) ==
    LET d == n * n - n
        s == SumMatrix(m, n, n)
    IN  IF d = 0 THEN DivByZero(2 * s) ELSE Rat(2 * s, 25 * d)

\* Line 273: the division, as a fraction in lowest terms.
Ppc0(m, n) ==
    LET d == n * n - n
        s == SumMatrix(m, n, n)
    IN  IF d = 0 THEN DivByZero(s) ELSE Rat(s, 25 * d)

\* Python's None: a value that is no fraction.
None == <<"None">>

\* Lines 269-278: the value returned for a method.
ReturnValue(m, mat, n) ==
    IF m = "ppc0" THEN Ppc0(mat, n)
    ELSE None

StpIdle ==
    /\ arg_signals = ListArg(<< >>)
    /\ arg_trains = ListArg(<< >>)
    /\ interpolate = FALSE
    /\ pc = "idle"
    /\ exc = "none"
    /\ hilbert_transform = << >>
    /\ spiketrains = << >>
    /\ spiketrain_i = 0
    /\ phase_i = 0
    /\ sttimeind = << >>
    /\ ind_at_spike = << >>
    /\ spike_i = 0
    /\ result_phases = << >>
    /\ result_amps = << >>
    /\ result_times = << >>
    /\ ret = NoReturn

InitPpc ==
    /\ StpIdle
    /\ arg_phases \in PhaseArgs
    /\ method \in Methods
    /\ ppc_pc = "start"
    /\ ppc_exc = "none"
    /\ phases = << >>
    /\ phase_array = << >>
    /\ n_trials = 0
    /\ dot_prod = << >>
    /\ ppc_ret = NoReturn

\* Lines 233-245: normalise the argument and check its entries.
PpcCheckEntries ==
    /\ ppc_pc = "start"
    /\ phases' = AsList(arg_phases)
    /\ LET e == CheckEntries(AsList(arg_phases), 1)
       IN  /\ ppc_exc' = e
           /\ ppc_pc' = IF e = "none" THEN "method" ELSE "raised"
    /\ UNCHANGED <<arg_phases, method, phase_array, n_trials, dot_prod,
                   ppc_ret>>
    /\ UNCHANGED stp_vars

\* Lines 247-248: check the method.
PpcCheckMethod ==
    /\ ppc_pc = "method"
    /\ IF MethodAccepted(method)
       THEN /\ ppc_pc' = "hstack"
            /\ ppc_exc' = ppc_exc
       ELSE /\ ppc_pc' = "raised"
            /\ ppc_exc' = "ValueError"
    /\ UNCHANGED <<arg_phases, method, phases, phase_array, n_trials,
                   dot_prod, ppc_ret>>
    /\ UNCHANGED stp_vars

\* Lines 250-251: pool the phases; np.hstack of an empty list raises
\* ValueError.
PpcHstack ==
    /\ ppc_pc = "hstack"
    /\ IF phases = << >>
       THEN /\ ppc_pc' = "raised"
            /\ ppc_exc' = "ValueError"
            /\ UNCHANGED <<phase_array, n_trials>>
       ELSE /\ ppc_pc' = "matrix"
            /\ ppc_exc' = ppc_exc
            /\ phase_array' = Hstack(phases)
            /\ n_trials' = Len(Hstack(phases))
    /\ UNCHANGED <<arg_phases, method, phases, dot_prod, ppc_ret>>
    /\ UNCHANGED stp_vars

\* Lines 256-267: the dot product matrix with its diagonal zeroed.
PpcDotProd ==
    /\ ppc_pc = "matrix"
    /\ dot_prod' = DotProd(phase_array, n_trials)
    /\ ppc_pc' = "result"
    /\ UNCHANGED <<arg_phases, method, ppc_exc, phases, phase_array,
                   n_trials, ppc_ret>>
    /\ UNCHANGED stp_vars

\* Lines 269-278: compute the statistic and return it.
PpcReturn ==
    /\ ppc_pc = "result"
    /\ ppc_ret' = ReturnValue(method, dot_prod, n_trials)
    /\ ppc_pc' = "done"
    /\ UNCHANGED <<arg_phases, method, ppc_exc, phases, phase_array,
                   n_trials, dot_prod>>
    /\ UNCHANGED stp_vars

NextPpc ==
    \/ PpcCheckEntries
    \/ PpcCheckMethod
    \/ PpcHstack
    \/ PpcDotProd
    \/ PpcReturn

SpecPpc == InitPpc /\ [][NextPpc]_vars

\* -------------------------------------- claims: pairwise_phase_consistency

\* The entries of the argument once a bare value is wrapped into a list.
Entries == arg_phases.items

\* All phase values supplied, entry after entry.
RECURSIVE PoolFrom(_)
PoolFrom(k) ==
    IF k > Len(Entries) THEN << >> ELSE Entries[k].data \o PoolFrom(k + 1)

\* How often phase p is among the values supplied.
CountOf(p) ==
    LET pool == PoolFrom(1)
    IN  Cardinality({j \in 1..Len(pool) : pool[j] = p})

\* The values supplied in increasing order: one sequence per multiset.
RECURSIVE SortedPoolFrom(_)
SortedPoolFrom(p) ==
    IF p \notin PhasePool THEN << >>
    ELSE [j \in 1..CountOf(p) |-> p] \o SortedPoolFrom(p + 1)

\* f of the docstring, cos(a) cos(b) + sin(a) sin(b), in twenty-fifths.
DocF(a, b) == Cos(a) * Cos(b) + Sin(a) * Sin(b)

\* The sum of f(pa[j], pa[k]) over the k in lo..hi other than j.
RECURSIVE SumOverK(_, _, _, _)
SumOverK(pa, j, lo, hi) ==
    IF hi < lo THEN 0
    ELSE IF hi = j THEN SumOverK(pa, j, lo, hi - 1)
    ELSE SumOverK(pa, j, lo, hi - 1) + DocF(pa[j], pa[hi])

\* The sum of f over the ordered pairs (j, k), j # k, with j <= n.
RECURSIVE SumOrdered(_, _)
SumOrdered(pa, n) ==
    IF n = 0 THEN 0
    ELSE SumOrdered(pa, n - 1) + SumOverK(pa, n, 1, Len(pa))

\* The sum of f over the pairs (j, k), j < k, with j <= n.
RECURSIVE SumUnordered(_, _)
SumUnordered(pa, n) ==
    IF n = 0 THEN 0
    ELSE SumUnordered(pa, n - 1) + SumOverK(pa, n, n + 1, Len(pa))

C8_PairwiseFormula ==
    (ppc_pc = "done" /\ n_trials >= 2) =>
        LET pool == PoolFrom(1)
            N    == Len(pool)
            so   == SumOrdered(pool, N)
            su   == SumUnordered(pool, N)
        IN  /\ N = n_trials
            /\ ppc_ret = Rat(so, 25 * (N * (N - 1)))
            /\ ppc_ret = Rat(2 * su, 25 * (N * (N - 1)))

\* A returned call on three phases that are not all equal, with a value
\* other than 0, 1 and -1.
C8_Witness ==
    /\ ppc_pc = "done"
    /\ n_trials = 3
    /\ ppc_ret \notin {<<0, 1>>, <<1, 1>>, <<-1, 1>>}

\* C9: the value returned is that of the multiset of the values supplied:
\* it equals the statistic of the one array holding them in increasing
\* order, whatever their grouping into arrays and their order.
C9_MultisetOnly ==
    ppc_pc = "done" =>
        LET sorted == SortedPoolFrom(1)
            N      == Len(sorted)
        IN  ppc_ret = Ppc0(DotProd(sorted, N), N)

\* A returned call on two arrays whose values, entry after entry, are not
\* in increasing order and are not all equal.
C9_Witness ==
    /\ ppc_pc = "done"
    /\ arg_phases.list
    /\ Len(Entries) = 2
    /\ Len(Entries[1].data) = 2
    /\ Len(Entries[2].data) >= 1
    /\ Entries[1].data[1] > Entries[1].data[2]
    /\ Entries[1].data[2] > Entries[2].data[1]
    /\ ppc_ret # NaN

\* Whether an entry is not a one-dimensional array.
Malformed(e) == ~e.ndarray \/ e.ndim # 1

HasMalformed == \E k \in 1..Len(Entries) : Malformed(Entries[k])

\* The first entry that is not a one-dimensional array.
FirstMalformed ==
    Entries[CHOOSE k \in 1..Len(Entries) :
                /\ Malformed(Entries[k])
                /\ \A j \in 1..(k - 1) : ~Malformed(Entries[j])]

\* Nothing of the statistic has been computed or returned.
NothingComputed ==
    /\ phase_array = << >>
    /\ n_trials = 0
    /\ dot_prod = << >>
    /\ ppc_ret = NoReturn

\* C10 as stated: an argument with an entry that is not a one-dimensional
\* array makes the call fail with TypeError before anything is computed.
C10_MalformedIsTypeError ==
    (ppc_pc # "start" /\ HasMalformed) =>
        /\ ppc_pc = "raised"
        /\ ppc_exc = "TypeError"
        /\ NothingComputed

\* C10 as amended: such an argument makes the call fail before anything is
\* computed, with TypeError when the first such entry is not an array and
\* with ValueError when it is an array of another number of dimensions; an
\* argument without such an entry never fails with TypeError.
C10_MalformedIsTypeOrValueError ==
    /\ (ppc_pc # "start" /\ HasMalformed) =>
        /\ ppc_pc = "raised"
        /\ ppc_exc = IF FirstMalformed.ndarray
                     THEN "ValueError" ELSE "TypeError"
        /\ NothingComputed
    /\ ~HasMalformed => ppc_exc # "TypeError"

\* A failed call whose first malformed entry is a two-dimensional array,
\* followed by an entry that is no array.
C10_Witness ==
    /\ ppc_pc = "raised"
    /\ ppc_exc = "ValueError"
    /\ Len(Entries) = 2
    /\ Entries[1].ndarray
    /\ Entries[1].ndim = 2
    /\ ~Entries[2].ndarray

\* C11: a call on well-formed phases with a method other than ppc0, the
\* declared ppc1 or an unknown name, fails with ValueError at the method
\* check, before anything is pooled or computed; and no call returns None.
C11_OtherMethodsFailExplicitly ==
    /\ (/\ ppc_pc \notin {"start", "method"}
        /\ ~HasMalformed
        /\ method # "ppc0") =>
            /\ ppc_pc = "raised"
            /\ ppc_exc = "ValueError"
            /\ NothingComputed
    /\ ppc_pc = "done" => ppc_ret # None

\* A call with method ppc1 on two arrays holding three phases, failed with
\* ValueError.
C11_Witness ==
    /\ ppc_pc = "raised"
    /\ ppc_exc = "ValueError"
    /\ method = "ppc1"
    /\ ~HasMalformed
    /\ Len(Entries) = 2
    /\ Len(PoolFrom(1)) = 3

\* The number of phase values supplied, over all entries.
TotalPhases == Len(PoolFrom(1))

\* C12: a ppc0 call on well-formed input with fewer than 2 phase values in
\* total, the empty list of arrays and lists of empty arrays included, does
\* not raise and returns NaN.
C12_FewPhasesReturnNaN ==
    (/\ ppc_pc \in {"done", "raised"}
     /\ method = "ppc0"
     /\ ~HasMalformed
     /\ TotalPhases < 2) =>
        /\ ppc_pc = "done"
        /\ ppc_exc = "none"
        /\ ppc_ret = NaN

\* The part of C12 the code keeps: with at least one array in the list, a
\* ppc0 call on fewer than 2 phase values in total returns NaN.
C12_FewPhasesInArraysReturnNaN ==
    (/\ ppc_pc \in {"done", "raised"}
     /\ method = "ppc0"
     /\ ~HasMalformed
     /\ Entries # << >>
     /\ TotalPhases < 2) =>
        /\ ppc_pc = "done"
        /\ ppc_exc = "none"
        /\ ppc_ret = NaN

\* The failing case of C12: a ppc0 call on the empty list, raised.
C12_EmptyListRaises ==
    /\ ppc_pc = "raised"
    /\ ppc_exc = "ValueError"
    /\ method = "ppc0"
    /\ arg_phases = ListArg(<< >>)

=============================================================================
